---- MODULE Spec2Model ----
(***************************************************************************)
(* Model of src/naver_finance_reader.py: NaverStockCollectorFinal.         *)
(* collect_all_data drives a paginated base collection, then an optional   *)
(* detail pass and an optional news / filing / IR pass over the collected  *)
(* table; main then saves the table as a workbook with hyperlinks.  Spec   *)
(* is a run of main, FairSpec the same run under the interpreter's         *)
(* progress, ApiSpec a direct call of one of the fetch methods.  Strings   *)
(* are sequences of one-character strings, so that prefixing, replacing,   *)
(* splitting and slicing are computed, not assumed.                        *)
(***************************************************************************)
EXTENDS Integers, Sequences, FiniteSets, TLC

VARIABLES
    pause,            \* tenths of a second slept since the last request, 0 when none
    pc,               \* position inside collect_all_data
    max_stocks,       \* argument of collect_all_data
    include_detail,   \* argument of collect_all_data
    include_news,     \* argument of collect_all_data
    page_size,        \* local of collect_all_data
    start_idx,        \* local of collect_all_data
    total_collected,  \* local of collect_all_data
    all_data,         \* local of collect_all_data: the non-empty pages, in arrival order
    result_df,        \* the table: a sequence of rows, each a function column -> cell
    details,          \* local of collect_all_data: the detail dicts gathered so far
    idx,              \* row index of the running enrichment loop (0-based)
    provider,         \* environment: the request type the provider answers with its full range
    fetchLog,         \* history: every bulk request issued, with the provider's answer
    callLog,          \* history: every detail / news / filing / IR request issued, with its outcome
    file,             \* the workbook main leaves on disk
    arg,              \* a direct call of one method: the method and its arguments
    ret               \* a direct call of one method: what it returned

vars == << pause, pc, max_stocks, include_detail, include_news, page_size, start_idx,
           total_collected, all_data, result_df, details, idx,
           provider, fetchLog, callLog, file, arg, ret >>

-----------------------------------------------------------------------------
(* Bounds of the model *)

\* largest max_stocks a run is started with
MaxStocks == 5

\* largest page size a run is started with
MaxPageSize == 2

\* largest max_stocks of a run that enriches its table; such a run fetches pages
\* of one record, so that its table holds at most this many rows, and one row
\* fewer when it runs both enrichment stages
MaxEnrichRows == 2

-----------------------------------------------------------------------------
(* Strings *)

EmptyStr == << >>

\* the cell pandas leaves in a column for the rows that were never written
NaN == << "NaN" >>

Digits == << "0", "1", "2", "3", "4", "5", "6", "7", "8", "9" >>

\* str.replace(old, ''): every occurrence of the character is removed
RECURSIVE StrRemove(_, _)
StrRemove(s, ch) ==
    IF s = << >> THEN << >>
    ELSE IF Head(s) = ch THEN StrRemove(Tail(s), ch)
    ELSE << Head(s) >> \o StrRemove(Tail(s), ch)

\* s[:n]
StrPrefix(s, n) == SubSeq(s, 1, IF Len(s) < n THEN Len(s) ELSE n)

RECURSIVE Flatten(_)
Flatten(ss) == IF ss = << >> THEN << >> ELSE Head(ss) \o Flatten(Tail(ss))

-----------------------------------------------------------------------------
(* The provider's bulk listing *)

\* the raw record the provider ranks at position r (0-based) of the rising list;
\* every other item code contains the letter A
RawItemAt(r) ==
    [ itemcode |-> IF r % 2 = 1 THEN << "A", Digits[(r % 10) + 1] >>
                   ELSE << "0", Digits[(r % 10) + 1] >> ]

\* the answers the provider can give to a bulk request: a transport or parse
\* failure, or a body holding the next n records from the requested offset
BulkResponses(startIdx, pageSize) ==
    { [ kind |-> "error", data |-> << >> ] } \cup
    { [ kind |-> "ok", data |-> [ i \in 1..n |-> RawItemAt(startIdx + i - 1) ] ]
        : n \in 0..pageSize }

\* the exchange code column: 'A' + itemcode
PrefixCode(itemcode) == << "A" >> \o itemcode

\* the lookup tables of the five code columns
sosok_map == (<< "0" >> :> << "KOSPI" >>) @@ (<< "1" >> :> << "KOSDAQ" >>)
status_map ==
    (<< "0" >> :> << "normal" >>) @@ (<< "1" >> :> << "managed" >>)
      @@ (<< "2" >> :> << "caution" >>) @@ (<< "9" >> :> << "halted" >>)
risefall_map ==
    (<< "1" >> :> << "upper limit" >>) @@ (<< "2" >> :> << "rise" >>)
      @@ (<< "3" >> :> << "flat" >>) @@ (<< "4" >> :> << "lower limit" >>)
      @@ (<< "5" >> :> << "fall" >>)
management_reason_map ==
    (<< "6", "0", "2", "4" >> :> << "capital impairment" >>)
      @@ (<< "6", "0", "2", "5" >> :> << "operating loss" >>)
      @@ (<< "6", "0", "2", "6" >> :> << "sales shortfall" >>)
      @@ (<< "6", "0", "2", "7" >> :> << "court receivership" >>)
      @@ (<< "6", "0", "2", "8" >> :> << "relisting" >>)
      @@ (<< "6", "0", "2", "9" >> :> << "governance change" >>)
      @@ (<< "6", "0", "5", "1" >> :> << "other" >>)
      @@ (<< "6", "0", "5", "2" >> :> << "merger" >>)
      @@ (<< "6", "0", "5", "3" >> :> << "split" >>)
      @@ (<< "6", "0", "5", "4" >> :> << "share transfer" >>)
market_alert_map ==
    (<< "0", "0" >> :> << "none" >>) @@ (<< "0", "1" >> :> << "caution" >>)
      @@ (<< "0", "2" >> :> << "warning" >>) @@ (<< "0", "3" >> :> << "risk" >>)

\* the raw code columns, the column each is resolved into, and its table
CodeFields == { "sosok", "statusTag", "risefall", "managementReasonCode", "marketAlertType" }
TextCol(f) ==
    CASE f = "sosok" -> "market"
      [] f = "statusTag" -> "status"
      [] f = "risefall" -> "change"
      [] f = "managementReasonCode" -> "reason"
      [] OTHER -> "alert"
TableOf(f) ==
    CASE f = "sosok" -> sosok_map
      [] f = "statusTag" -> status_map
      [] f = "risefall" -> risefall_map
      [] f = "managementReasonCode" -> management_reason_map
      [] OTHER -> market_alert_map

\* the value a frame holds for a record that lacks the column's key
Missing == [ k |-> "nan", s |-> << >> ]

\* df[col] of one record
RawValue(raw, f) == IF f \in DOMAIN raw THEN raw[f] ELSE Missing

\* Series.map(dict): a value that is no key of the dict becomes NaN
SeriesMapDict(table, v) ==
    IF v.k = "str" /\ v.s \in DOMAIN table THEN table[v.s] ELSE NaN

\* Series.map(lambda x: table.get(str(x), '') if pd.notna(x) else '')
SeriesMapGet(table, v) ==
    IF v.k = "str" THEN (IF v.s \in DOMAIN table THEN table[v.s] ELSE EmptyStr)
    ELSE EmptyStr

\* the resolution of one code column: a dict for the market segment, the
\* status and the change classification, a lambda for the other two
ResolveCode(f, v) ==
    IF f \in { "sosok", "statusTag", "risefall" } THEN SeriesMapDict(TableOf(f), v)
    ELSE SeriesMapGet(TableOf(f), v)

\* the columns of pd.DataFrame(data): every key of every record
FrameColumns(data) == UNION { DOMAIN data[i] : i \in 1..Len(data) }

\* one row of the selected, renamed frame: the exchange code, and one text
\* column per code column of the frame
MapRow(raw, cols) ==
    [ c \in { "code" } \cup { TextCol(f) : f \in CodeFields \cap cols } |->
        IF c = "code" THEN PrefixCode(raw.itemcode)
        ELSE LET f == CHOOSE g \in CodeFields : TextCol(g) = c
             IN ResolveCode(f, RawValue(raw, f)) ]

\* get_rising_stocks: an empty frame on any exception or empty body,
\* otherwise one mapped row per raw record, in the provider's order
get_rising_stocks(resp) ==
    IF resp.kind = "error" THEN << >>
    ELSE IF resp.data = << >> THEN << >>
    ELSE [ i \in 1..Len(resp.data) |-> MapRow(resp.data[i], FrameColumns(resp.data)) ]

-----------------------------------------------------------------------------
(* Python values and dates *)

\* a JSON / Python value that is a string, null (None), or a missing key
PyStr(s) == [ k |-> "str", s |-> s ]
PyNone == [ k |-> "none", s |-> << >> ]
Absent == [ k |-> "absent", s |-> << >> ]

\* dict.get(key, ''): the default only when the key is missing
GetOrEmpty(v) == IF v.k = "absent" THEN PyStr(EmptyStr) ELSE v

\* a date field of the provider: missing key, null, a string too short to hold
\* a date, a long enough string that does not parse, or a date; tz tells whether
\* an ISO string carries a UTC offset
NoDate == [ k |-> "absent", day |-> 0, secs |-> 0, tz |-> FALSE ]
NullDate == [ k |-> "null", day |-> 0, secs |-> 0, tz |-> FALSE ]
ShortDate == [ k |-> "short", day |-> 0, secs |-> 0, tz |-> FALSE ]
BadDate == [ k |-> "bad", day |-> 0, secs |-> 0, tz |-> FALSE ]
DateAt(day, secs, tz) == [ k |-> "date", day |-> day, secs |-> secs, tz |-> tz ]

\* default of the months parameter of the three facet fetches
months == 3

\* timedelta(days=months * 30)
DaysPerMonth == 30

\* datetime.now() - timedelta(days=months * 30); days count from today = 0
CutoffDate(now, nMonths) == [ day |-> now.day - nMonths * DaysPerMonth, secs |-> now.secs ]

\* a comparison with > in the place of >=
DtGT(a, b) == a.day > b.day \/ (a.day = b.day /\ a.secs > b.secs)

\* datetime >= datetime
DtGE(a, b) == a.day > b.day \/ (a.day = b.day /\ a.secs >= b.secs)

\* strftime('%Y-%m-%d') of a day
IsoDate(day) == << "d", ToString(day) >>

-----------------------------------------------------------------------------
(* get_stock_detail *)

\* stock_code.replace('A', '')
CleanCode(stock_code) == StrRemove(stock_code, "A")

\* ' '.join(descriptions)
RECURSIVE JoinSpace(_)
JoinSpace(ss) ==
    IF ss = << >> THEN << >>
    ELSE IF Len(ss) = 1 THEN Head(ss)
    ELSE Head(ss) \o << " " >> \o JoinSpace(Tail(ss))

\* the comments that pass "if desc:", as strings
RECURSIVE Descriptions(_)
Descriptions(cs) ==
    IF cs = << >> THEN << >>
    ELSE LET desc == GetOrEmpty(Head(cs)) IN
         IF desc.k = "str" /\ desc.s # EmptyStr
         THEN << desc.s >> \o Descriptions(Tail(cs))
         ELSE Descriptions(Tail(cs))

DetailFailed == [ sector |-> PyStr(EmptyStr), description |-> PyStr(EmptyStr) ]

\* get_stock_detail: both fields empty on any exception (transport failure,
\* unparsable body, a body that is no dict)
get_stock_detail(resp) ==
    IF resp.kind # "dict" THEN DetailFailed
    ELSE [ sector |-> GetOrEmpty(resp.upJongName),
           description |-> PyStr(JoinSpace(Descriptions(resp.comments))) ]

-----------------------------------------------------------------------------
(* get_recent_news, get_recent_notices, get_recent_ir *)

\* one item of a provider list
Item(dt, title, office, article, biz) ==
    [ dt |-> dt, title |-> title, officeId |-> office, articleId |-> article,
      bizdateSeq |-> biz ]

Entry(title, day, link) == [ title |-> title, date |-> IsoDate(day), link |-> link ]

\* f"https://n.news.naver.com/mnews/article/{office_id}/{article_id}"
NewsLink(office, article) ==
    << "https://n.news.naver.com/mnews/article/" >> \o office \o << "/" >> \o article

\* '_' in biz_seq
HasUnderscore(s) == \E i \in 1..Len(s) : s[i] = "_"

\* biz_seq.split('_')[0]
RECURSIVE BeforeUnderscore(_)
BeforeUnderscore(s) ==
    IF s = << >> \/ Head(s) = "_" THEN << >>
    ELSE << Head(s) >> \o BeforeUnderscore(Tail(s))

\* the DART link of a filing, or '' when the identifier has no underscore
NoticeLink(biz) ==
    IF HasUnderscore(biz)
    THEN << "https://dart.fss.or.kr/dsaf001/main.do?rcpNo=" >> \o BeforeUnderscore(biz)
    ELSE EmptyStr

\* what one loop body does with one item: "take" appends the entry, "skip" goes
\* on to the next item, "raise" leaves the loops through the outer except
Take(e) == [ act |-> "take", entry |-> e ]
Skip == [ act |-> "skip", entry |-> Entry(PyNone, 0, EmptyStr) ]
Raise == [ act |-> "raise", entry |-> Entry(PyNone, 0, EmptyStr) ]

\* news_date >= cutoff_date
NewsFresh(day, cutoff) == DtGE([ day |-> day, secs |-> 0 ], cutoff)

\* the body of "for item in cluster['items']" of get_recent_news
NewsItem(item, cutoff) ==
    CASE item.dt.k = "absent" -> Skip
      [] item.dt.k = "null" -> Raise
      [] item.dt.k = "short" -> Skip
      [] item.dt.k = "bad" -> Raise
      [] OTHER ->
           IF NewsFresh(item.dt.day, cutoff)
           THEN Take(Entry(GetOrEmpty(item.title), item.dt.day,
                           NewsLink(item.officeId, item.articleId)))
           ELSE Skip

\* notice_date >= cutoff_date
NoticeFresh(dt, cutoff) == DtGE([ day |-> dt.day, secs |-> dt.secs ], cutoff)

\* the body of "for item in data" of get_recent_notices: everything after
\* "if notice_date_str:" runs inside the inner try
NoticeItem(item, cutoff) ==
    CASE item.dt.k \in { "absent", "null" } -> Skip
      [] item.dt.k \in { "short", "bad" } -> Skip
      [] item.dt.tz -> Skip
      [] OTHER ->
           IF NoticeFresh(item.dt, cutoff)
           THEN IF GetOrEmpty(item.bizdateSeq).k # "str" THEN Skip
                ELSE Take(Entry(GetOrEmpty(item.title), item.dt.day,
                                NoticeLink(GetOrEmpty(item.bizdateSeq).s)))
           ELSE Skip

\* ir_date >= cutoff_date
IrFresh(day, cutoff) == DtGE([ day |-> day, secs |-> 0 ], cutoff)

\* the body of "for item in data" of get_recent_ir: len(ir_date_str) runs
\* outside the inner try, strptime inside it
IrItem(item, cutoff) ==
    CASE item.dt.k = "absent" -> Skip
      [] item.dt.k = "null" -> Raise
      [] item.dt.k = "short" -> Skip
      [] item.dt.k = "bad" -> Skip
      [] OTHER ->
           IF IrFresh(item.dt.day, cutoff)
           THEN Take(Entry(GetOrEmpty(item.title), item.dt.day, EmptyStr))
           ELSE Skip

\* if len(list) >= max: break
MaxReached(list, max) == Len(list) >= max

\* one "for item in ..." loop over the items, from the list gathered so far
RECURSIVE ScanItems(_, _, _, _, _)
ScanItems(facet, items, cutoff, max, acc) ==
    IF items = << >> THEN [ list |-> acc, raised |-> FALSE ]
    ELSE LET r == CASE facet = "news" -> NewsItem(Head(items), cutoff)
                    [] facet = "notices" -> NoticeItem(Head(items), cutoff)
                    [] OTHER -> IrItem(Head(items), cutoff)
         IN CASE r.act = "raise" -> [ list |-> acc, raised |-> TRUE ]
              [] r.act = "skip" -> ScanItems(facet, Tail(items), cutoff, max, acc)
              [] OTHER ->
                   IF MaxReached(Append(acc, r.entry), max)
                   THEN [ list |-> Append(acc, r.entry), raised |-> FALSE ]
                   ELSE ScanItems(facet, Tail(items), cutoff, max, Append(acc, r.entry))

\* "for cluster in data['clusters']": a cluster without items raises KeyError
RECURSIVE ScanClusters(_, _, _, _)
ScanClusters(clusters, cutoff, max, acc) ==
    IF clusters = << >> THEN acc
    ELSE IF ~Head(clusters).hasItems THEN acc
    ELSE LET r == ScanItems("news", Head(clusters).items, cutoff, max, acc) IN
         IF r.raised \/ MaxReached(r.list, max) THEN r.list
         ELSE ScanClusters(Tail(clusters), cutoff, max, r.list)

\* get_recent_news: what was gathered before an exception, if any, is returned
get_recent_news(resp, now, nMonths, max_news) ==
    IF resp.kind # "dict" \/ ~resp.hasClusters THEN << >>
    ELSE ScanClusters(resp.clusters, CutoffDate(now, nMonths), max_news, << >>)

\* get_recent_notices
get_recent_notices(resp, now, nMonths, max_notices) ==
    IF resp.kind # "list" THEN << >>
    ELSE ScanItems("notices", resp.data, CutoffDate(now, nMonths), max_notices, << >>).list

\* get_recent_ir
get_recent_ir(resp, now, nMonths, max_ir) ==
    IF resp.kind # "list" THEN << >>
    ELSE ScanItems("ir", resp.data, CutoffDate(now, nMonths), max_ir, << >>).list

-----------------------------------------------------------------------------
(* The provider's answers to the per-record requests *)

\* the times datetime.now() can read within a day: midnight sharp, or later
Clocks == { [ day |-> 0, secs |-> 0 ], [ day |-> 0, secs |-> 1 ] }

\* result_df.at[...] = news[i]['제목'][:50]
TitleCut == 50

FreshDate == DateAt(0 - 1, 0, FALSE)
OldDate == DateAt(0 - (months * DaysPerMonth) - 1, 0, FALSE)
ZonedDate == DateAt(0 - 1, 0, TRUE)

ShortTitle(tag, i) == PyStr(<< tag, Digits[i + 1] >>)
LongTitle(tag) == PyStr([ i \in 1..(TitleCut + 1) |-> tag ])

NewsOf(dt, title, i) == Item(dt, title, << "0", "1" >>, << Digits[i + 1] >>, Absent)
Cluster(items) == [ hasItems |-> TRUE, items |-> items ]
BrokenCluster == [ hasItems |-> FALSE, items |-> << >> ]
NewsBody(clusters) == [ kind |-> "dict", hasClusters |-> TRUE, clusters |-> clusters ]

\* answers to a news request: a transport or parse failure, a body without
\* clusters, and bodies yielding 1, 2 and 4 fresh items, an old item, a
\* cluster without items, a date that does not parse, an item without a
\* title, a null title
NewsError == [ kind |-> "error", hasClusters |-> FALSE, clusters |-> << >> ]
NewsOne ==
    NewsBody(<< Cluster(<< NewsOf(FreshDate, ShortTitle("n", 1), 1) >>), BrokenCluster >>)
NewsResponses ==
    { NewsError, NewsOne,
      [ kind |-> "dict", hasClusters |-> FALSE, clusters |-> << >> ],
      NewsBody(<< Cluster(<< NewsOf(FreshDate, ShortTitle("n", 1), 1),
                             NewsOf(BadDate, ShortTitle("n", 2), 2) >>) >>),
      NewsBody(<< Cluster(<< NewsOf(FreshDate, Absent, 1) >>),
                  Cluster(<< NewsOf(OldDate, ShortTitle("n", 9), 9),
                             NewsOf(FreshDate, ShortTitle("n", 2), 2) >>) >>),
      NewsBody(<< Cluster(<< NewsOf(FreshDate, ShortTitle("n", 1), 1),
                             NewsOf(FreshDate, ShortTitle("n", 2), 2) >>),
                  Cluster(<< NewsOf(FreshDate, LongTitle("n"), 3),
                             NewsOf(FreshDate, ShortTitle("n", 4), 4) >>) >>),
      NewsBody(<< Cluster(<< NewsOf(FreshDate, ShortTitle("n", 1), 1),
                             NewsOf(FreshDate, PyNone, 2) >>) >>) }

NoticeOf(dt, title, biz) == Item(dt, title, EmptyStr, EmptyStr, biz)
ListBody(items) == [ kind |-> "list", data |-> items ]

\* answers to a filing request: a failure, a body that is no list, and lists
\* yielding 1, 2 and 4 fresh items, with and without the underscore in the
\* identifier, an unparsable date, a date with a UTC offset, an empty title,
\* a null title
ListError == [ kind |-> "error", data |-> << >> ]
NoticeOne ==
    ListBody(<< NoticeOf(BadDate, ShortTitle("f", 9), PyStr(<< "9", "_", "9" >>)),
                NoticeOf(FreshDate, ShortTitle("f", 1), PyStr(<< "7", "1", "_", "2" >>)) >>)
NoticeResponses ==
    { ListError, NoticeOne,
      [ kind |-> "dict", data |-> << >> ],
      ListBody(<< NoticeOf(FreshDate, PyStr(EmptyStr), PyStr(<< "7", "1", "_", "2" >>)),
                  NoticeOf(ZonedDate, ShortTitle("f", 9), PyStr(<< "9", "_", "9" >>)),
                  NoticeOf(FreshDate, ShortTitle("f", 2), PyStr(<< "7", "2" >>)) >>),
      ListBody(<< NoticeOf(FreshDate, ShortTitle("f", 1), PyStr(<< "7", "1", "_", "2" >>)),
                  NoticeOf(FreshDate, ShortTitle("f", 2), PyStr(<< "7", "2" >>)),
                  NoticeOf(FreshDate, LongTitle("f"), Absent),
                  NoticeOf(FreshDate, ShortTitle("f", 4), Absent) >>),
      ListBody(<< NoticeOf(FreshDate, PyNone, Absent) >>) }

IrOf(dt, title) == Item(dt, title, EmptyStr, EmptyStr, Absent)

\* answers to an IR request: a failure, a body that is no list, and lists
\* yielding 1, 2 and 4 fresh items, a null date, an unparsable date, a null title
IrOne ==
    ListBody(<< IrOf(FreshDate, ShortTitle("i", 1)), IrOf(NullDate, ShortTitle("i", 9)),
                IrOf(FreshDate, ShortTitle("i", 2)) >>)
IrResponses ==
    { ListError, IrOne,
      [ kind |-> "dict", data |-> << >> ],
      ListBody(<< IrOf(FreshDate, ShortTitle("i", 1)), IrOf(BadDate, ShortTitle("i", 9)),
                  IrOf(FreshDate, ShortTitle("i", 2)) >>),
      ListBody(<< IrOf(FreshDate, ShortTitle("i", 1)), IrOf(FreshDate, ShortTitle("i", 2)),
                  IrOf(FreshDate, LongTitle("i")), IrOf(FreshDate, ShortTitle("i", 4)) >>),
      ListBody(<< IrOf(FreshDate, PyNone) >>) }

\* answers to a detail request: a failure, a body that is no dict, a dict
\* without the fields, a dict with a sector and two of the three comments
DetailError == [ kind |-> "error", upJongName |-> Absent, comments |-> << >> ]
DetailOne ==
    [ kind |-> "dict", upJongName |-> PyStr(<< "I", "T" >>),
      comments |-> << PyStr(<< "a" >>), PyNone, PyStr(<< "c" >>) >> ]
DetailResponses ==
    { DetailError, DetailOne,
      [ kind |-> "list", upJongName |-> Absent, comments |-> << >> ],
      [ kind |-> "dict", upJongName |-> Absent, comments |-> << Absent, Absent, Absent >> ],
      [ kind |-> "dict", upJongName |-> PyStr(<< "B", "i", "o" >>),
        comments |-> << Absent, PyStr(<< "b" >>), PyStr(<< >>) >> ] }

\* the request types, and the answers the provider of a run gives to each: the
\* full range to the type it is set on, a failure or one plain body to the others
RequestTypes == { "detail", "news", "notices", "ir" }
DetailAnswers == IF provider = "detail" THEN DetailResponses ELSE { DetailError, DetailOne }
NewsAnswers == IF provider = "news" THEN NewsResponses ELSE { NewsError, NewsOne }
NoticeAnswers == IF provider = "notices" THEN NoticeResponses ELSE { ListError, NoticeOne }
IrAnswers == IF provider = "ir" THEN IrResponses ELSE { ListError, IrOne }

-----------------------------------------------------------------------------
(* The table *)

\* the cell a Python value is stored as
Cell(v) == IF v.k = "str" THEN v.s ELSE << "None" >>

\* result_df.at[r, col] = v: a column that does not exist yet is created, NaN
\* in every other row
SetCell(df, r, col, v) ==
    [ i \in 1..Len(df) |->
        IF i = r THEN (col :> v) @@ df[i]
        ELSE IF col \in DOMAIN df[i] THEN df[i]
        ELSE (col :> NaN) @@ df[i] ]

\* for i in range(3)
NSlots == 3

\* the columns of the three facets: title, date and, where written, link
NewsCols ==
    << [ t |-> "news1", d |-> "news1_date", l |-> "news1_link" ],
       [ t |-> "news2", d |-> "news2_date", l |-> "news2_link" ],
       [ t |-> "news3", d |-> "news3_date", l |-> "news3_link" ] >>
NoticeCols ==
    << [ t |-> "filing1", d |-> "filing1_date", l |-> "filing1_link" ],
       [ t |-> "filing2", d |-> "filing2_date", l |-> "filing2_link" ],
       [ t |-> "filing3", d |-> "filing3_date", l |-> "filing3_link" ] >>
IrCols ==
    << [ t |-> "ir1", d |-> "ir1_date", l |-> "" ],
       [ t |-> "ir2", d |-> "ir2_date", l |-> "" ],
       [ t |-> "ir3", d |-> "ir3_date", l |-> "" ] >>

\* the line that writes the link left out
SetLinkNever(df, r, col, v) == df

\* the link column is written for news and filings only
SetLink(df, r, col, v) == IF col = "" THEN df ELSE SetCell(df, r, col, v)

\* the slot's title can be sliced: news[i]['제목'][:50] raises on None
Sliceable(title) == title.k = "str"

\* the "if i < len(list)" branch of one slot
FillSlot(df, r, c, e) ==
    SetLink(SetCell(SetCell(df, r, c.t, StrPrefix(e.title.s, TitleCut)), r, c.d, e.date),
            r, c.l, e.link)

\* the else branch left out
BlankSlotSkipped(df, r, c) == df

\* the else branch of one slot
BlankSlot(df, r, c) ==
    SetLink(SetCell(SetCell(df, r, c.t, EmptyStr), r, c.d, EmptyStr), r, c.l, EmptyStr)

\* "for i in range(3)" from slot i on: the table as written when the loop ends
\* or when a title raises
RECURSIVE WriteSlots(_, _, _, _, _)
WriteSlots(df, r, cols, list, i) ==
    IF i > NSlots THEN [ df |-> df, raised |-> FALSE ]
    ELSE IF i <= Len(list)
    THEN IF Sliceable(list[i].title)
         THEN WriteSlots(FillSlot(df, r, cols[i], list[i]), r, cols, list, i + 1)
         ELSE [ df |-> df, raised |-> TRUE ]
    ELSE WriteSlots(BlankSlot(df, r, cols[i]), r, cols, list, i + 1)

\* a merge that does not align the details with the rows
MergeDetailsFirst(df, ds) ==
    [ i \in 1..Len(df) |->
        ("sector" :> Cell(ds[1].sector)) @@ ("description" :> Cell(ds[1].description))
          @@ df[i] ]

\* pd.concat([result_df, pd.DataFrame(details)], axis=1)
MergeDetails(df, ds) ==
    [ i \in 1..Len(df) |->
        ("sector" :> Cell(ds[i].sector)) @@ ("description" :> Cell(ds[i].description))
          @@ df[i] ]

\* a loop that keeps passing the code of the last row
StockRowLast == Len(result_df)

\* row['종목코드']: the row (1-based) whose code the iteration passes to the fetch
StockRow == idx + 1

\* one entry of callLog: the request type, the row (1-based) it was issued for,
\* the code the fetch was called with, the ticker the request was keyed by,
\* whether the fetch failed, and what the fetch returned
Call(op, row, stock_code, failed, list, detail) ==
    [ op |-> op, row |-> row, stock_code |-> stock_code, code |-> CleanCode(stock_code),
      failed |-> failed, list |-> list, detail |-> detail ]

\* the fetch raised before any item was read
FetchFailed(resp) == resp.kind = "error"

\* the three facet fetches of collect_all_data use the defaults
max_items == 3

-----------------------------------------------------------------------------
(* What the except clauses let through *)

\* an except clause that misses the failures of the request
BulkEscapesOnError(resp) == resp.kind = "error"

\* get_rising_stocks, "except Exception": no failure of the request leaves it
BulkEscapes(resp) == FALSE

\* get_stock_detail, bare "except": no failure of the request leaves it
DetailEscapes(resp) == FALSE

\* an except clause that misses the failures of the request
NewsEscapesOnError(resp) == resp.kind = "error"

\* get_recent_news, outer "except: pass"
NewsEscapes(resp) == FALSE

\* get_recent_notices, outer "except: pass"
NoticesEscapes(resp) == FALSE

\* get_recent_ir, outer "except: pass"
IrEscapes(resp) == FALSE

-----------------------------------------------------------------------------
(* collect_all_data: the base stage *)

\* a guard that counts the pages gathered instead of the records
LoopGuardCountsPages == Len(all_data) < max_stocks

\* while total_collected < max_stocks
LoopGuard == total_collected < max_stocks

\* a count that grows by one per page
CountAfterPerPage(df) == total_collected + 1

\* total_collected += len(df)
CountAfter(df) == total_collected + Len(df)

\* if df.empty: break
IsEmptyPage(df) == Len(df) = 0

\* "continue" in the place of "break"
AfterEmptyPageContinue == "collect"

\* the position after "if df.empty:": break leaves the loop
AfterEmptyPage == "collected"

\* the last-page test left out
IsLastPageNever(df) == FALSE

\* if len(df) < page_size: break
IsLastPage(df) == Len(df) < page_size

\* the test for an empty result left out
NothingCollectedNever(pages) == FALSE

\* if not all_data
NothingCollected(pages) == pages = << >>

\* a concatenation that puts the latest page first
ConcatPagesReversed(pages) == Flatten([ i \in 1..Len(pages) |-> pages[Len(pages) + 1 - i] ])

\* pd.concat(all_data, ignore_index=True)
ConcatPages(pages) == Flatten(pages)

\* time.sleep(0.5), time.sleep(0.2), time.sleep(0.3), in tenths of a second
PageSleep == 5
DetailSleep == 2
FacetSleep == 3

\* a run that sleeps between the pages only
PauseAfterPagesOnly(stage) == IF stage = "page" THEN PageSleep ELSE 0

\* the sleep that ends one iteration of the page loop, the detail loop, the facet loop
PauseAfter(stage) ==
    CASE stage = "page" -> PageSleep
      [] stage = "detail" -> DetailSleep
      [] OTHER -> FacetSleep

\* an offset that is not advanced
NextOffsetSame == start_idx

\* start_idx += page_size
NextOffset == start_idx + page_size

\* a detail stage that ends the run
AfterDetailDone == "done"

\* the stage that follows the base stage, and the one that follows the detail stage
AfterBase == IF include_detail THEN "detail" ELSE IF include_news THEN "news" ELSE "done"
AfterDetail == IF include_news THEN "news" ELSE "done"

\* no workbook was written
NoFile ==
    [ written |-> FALSE, rows |-> << >>, hidden |-> { }, width |-> [ c \in { } |-> 0 ] ]

\* no method was called directly
NoCall == [ fn |-> "none" ]
NoReturn == [ kind |-> "none" ]

Init ==
    /\ pause = 0
    /\ pc = "collect"
    /\ max_stocks \in 0..MaxStocks
    /\ page_size \in 1..MaxPageSize
    /\ include_detail \in BOOLEAN
    /\ include_news \in BOOLEAN
    /\ (include_detail \/ include_news) => max_stocks <= MaxEnrichRows /\ page_size = 1
    /\ (include_detail /\ include_news) => max_stocks < MaxEnrichRows
    /\ provider \in RequestTypes
    /\ provider = "detail" => include_detail \/ ~include_news
    /\ provider # "detail" => include_news /\ ~include_detail
    /\ start_idx = 0
    /\ total_collected = 0
    /\ all_data = << >>
    /\ result_df = << >>
    /\ details = << >>
    /\ idx = 0
    /\ fetchLog = << >>
    /\ callLog = << >>
    /\ file = NoFile
    /\ arg = NoCall
    /\ ret = NoReturn

\* one iteration that ends at "if df.empty: break"
FetchEmpty ==
    /\ pc = "collect"
    /\ LoopGuard
    /\ \E resp \in BulkResponses(start_idx, page_size) :
         /\ BulkEscapes(resp) \/ IsEmptyPage(get_rising_stocks(resp))
         /\ fetchLog' = Append(fetchLog, [ startIdx |-> start_idx, resp |-> resp ])
         /\ pc' = IF BulkEscapes(resp) THEN "raised" ELSE AfterEmptyPage
    /\ pause' = 0
    /\ UNCHANGED << file, arg, ret, provider, max_stocks, include_detail, include_news, page_size,
                    start_idx, total_collected, all_data, result_df, details, idx,
                    callLog >>

\* one iteration that appends a short page and ends at "if len(df) < page_size: break"
FetchLastPage ==
    /\ pc = "collect"
    /\ LoopGuard
    /\ \E resp \in BulkResponses(start_idx, page_size) :
         LET df == get_rising_stocks(resp) IN
         /\ ~BulkEscapes(resp)
         /\ ~IsEmptyPage(df)
         /\ IsLastPage(df)
         /\ all_data' = Append(all_data, df)
         /\ total_collected' = CountAfter(df)
         /\ fetchLog' = Append(fetchLog, [ startIdx |-> start_idx, resp |-> resp ])
    /\ pc' = "collected"
    /\ pause' = 0
    /\ UNCHANGED << file, arg, ret, provider, max_stocks, include_detail, include_news, page_size,
                    start_idx, result_df, details, idx, callLog >>

\* one iteration that appends a full page, advances the offset and sleeps
FetchFullPage ==
    /\ pc = "collect"
    /\ LoopGuard
    /\ \E resp \in BulkResponses(start_idx, page_size) :
         LET df == get_rising_stocks(resp) IN
         /\ ~BulkEscapes(resp)
         /\ ~IsEmptyPage(df)
         /\ ~IsLastPage(df)
         /\ all_data' = Append(all_data, df)
         /\ total_collected' = CountAfter(df)
         /\ fetchLog' = Append(fetchLog, [ startIdx |-> start_idx, resp |-> resp ])
    /\ start_idx' = NextOffset
    /\ pc' = "collect"
    /\ pause' = PauseAfter("page")
    /\ UNCHANGED << file, arg, ret, provider, max_stocks, include_detail, include_news, page_size,
                    result_df, details, idx, callLog >>

\* the while condition is false
LoopExit ==
    /\ pc = "collect"
    /\ ~LoopGuard
    /\ pc' = "collected"
    /\ UNCHANGED << pause, file, arg, ret, provider, max_stocks, include_detail, include_news, page_size,
                    start_idx, total_collected, all_data, result_df, details, idx,
                    fetchLog, callLog >>

\* if not all_data: return pd.DataFrame()
ReturnEmpty ==
    /\ pc = "collected"
    /\ NothingCollected(all_data)
    /\ result_df' = << >>
    /\ pc' = "empty"
    /\ UNCHANGED << pause, file, arg, ret, provider, max_stocks, include_detail, include_news, page_size,
                    start_idx, total_collected, all_data, details, idx,
                    fetchLog, callLog >>

\* result_df = pd.concat(all_data, ignore_index=True)
Concat ==
    /\ pc = "collected"
    /\ ~NothingCollected(all_data)
    /\ result_df' = ConcatPages(all_data)
    /\ idx' = 0
    /\ pc' = AfterBase
    /\ UNCHANGED << pause, file, arg, ret, provider, max_stocks, include_detail, include_news, page_size,
                    start_idx, total_collected, all_data, details, fetchLog, callLog >>

-----------------------------------------------------------------------------
(* collect_all_data: the detail stage *)

\* one iteration of "for idx, row in result_df.iterrows()" of the detail stage
DetailFetch ==
    /\ pc = "detail"
    /\ idx < Len(result_df)
    /\ \E resp \in DetailAnswers :
         LET detail == get_stock_detail(resp) IN
         /\ details' = IF DetailEscapes(resp) THEN details ELSE Append(details, detail)
         /\ pc' = IF DetailEscapes(resp) THEN "raised" ELSE "detail"
         /\ idx' = IF DetailEscapes(resp) THEN idx ELSE idx + 1
         /\ callLog' = Append(callLog,
                Call("detail", idx + 1, result_df[StockRow].code,
                     FetchFailed(resp), << >>, detail))
    /\ pause' = IF pc' = "detail" THEN PauseAfter("detail") ELSE 0
    /\ UNCHANGED << file, arg, ret, provider, max_stocks, include_detail, include_news, page_size,
                    start_idx, total_collected, all_data, result_df, fetchLog >>

\* the loop is over: the detail columns are merged into the table
DetailMerge ==
    /\ pc = "detail"
    /\ idx = Len(result_df)
    /\ result_df' = MergeDetails(result_df, details)
    /\ idx' = 0
    /\ pc' = AfterDetail
    /\ UNCHANGED << pause, file, arg, ret, provider, max_stocks, include_detail, include_news, page_size,
                    start_idx, total_collected, all_data, details, fetchLog, callLog >>

-----------------------------------------------------------------------------
(* collect_all_data: the news / filing / IR stage *)

\* the news part of one iteration: fetch, then write the three slots
NewsFetch ==
    /\ pc = "news"
    /\ idx < Len(result_df)
    /\ \E resp \in NewsAnswers, now \in Clocks :
         LET news == get_recent_news(resp, now, months, max_items)
             w == IF NewsEscapes(resp) THEN [ df |-> result_df, raised |-> TRUE ]
                  ELSE WriteSlots(result_df, idx + 1, NewsCols, news, 1)
         IN /\ result_df' = w.df
            /\ pc' = IF w.raised THEN "raised" ELSE "notices"
            /\ callLog' = Append(callLog,
                   Call("news", idx + 1, result_df[StockRow].code,
                        FetchFailed(resp), news, DetailFailed))
    /\ pause' = 0
    /\ UNCHANGED << file, arg, ret, provider, max_stocks, include_detail, include_news, page_size,
                    start_idx, total_collected, all_data, details, idx, fetchLog >>

\* the filing part of one iteration
NoticesFetch ==
    /\ pc = "notices"
    /\ \E resp \in NoticeAnswers, now \in Clocks :
         LET notices == get_recent_notices(resp, now, months, max_items)
             w == IF NoticesEscapes(resp) THEN [ df |-> result_df, raised |-> TRUE ]
                  ELSE WriteSlots(result_df, idx + 1, NoticeCols, notices, 1)
         IN /\ result_df' = w.df
            /\ pc' = IF w.raised THEN "raised" ELSE "ir"
            /\ callLog' = Append(callLog,
                   Call("notices", idx + 1, result_df[StockRow].code,
                        FetchFailed(resp), notices, DetailFailed))
    /\ pause' = 0
    /\ UNCHANGED << file, arg, ret, provider, max_stocks, include_detail, include_news, page_size,
                    start_idx, total_collected, all_data, details, idx, fetchLog >>

\* the IR part of one iteration, then the sleep and the next row
IrFetch ==
    /\ pc = "ir"
    /\ \E resp \in IrAnswers, now \in Clocks :
         LET ir_list == get_recent_ir(resp, now, months, max_items)
             w == IF IrEscapes(resp) THEN [ df |-> result_df, raised |-> TRUE ]
                  ELSE WriteSlots(result_df, idx + 1, IrCols, ir_list, 1)
         IN /\ result_df' = w.df
            /\ pc' = IF w.raised THEN "raised" ELSE "news"
            /\ idx' = IF w.raised THEN idx ELSE idx + 1
            /\ callLog' = Append(callLog,
                   Call("ir", idx + 1, result_df[StockRow].code,
                        FetchFailed(resp), ir_list, DetailFailed))
    /\ pause' = IF pc' = "news" THEN PauseAfter("ir") ELSE 0
    /\ UNCHANGED << file, arg, ret, provider, max_stocks, include_detail, include_news, page_size,
                    start_idx, total_collected, all_data, details, fetchLog >>

\* the loop is over: return result_df
FacetsDone ==
    /\ pc = "news"
    /\ idx = Len(result_df)
    /\ pc' = "done"
    /\ UNCHANGED << pause, file, arg, ret, provider, max_stocks, include_detail, include_news, page_size,
                    start_idx, total_collected, all_data, result_df, details, idx,
                    fetchLog, callLog >>

-----------------------------------------------------------------------------
(* save_to_excel_with_hyperlinks and the end of main *)

\* df.empty
DfEmpty(df) == Len(df) = 0

\* what load_workbook reads from the cell to_excel wrote: an empty string, a
\* NaN and a None all come back as an empty cell
ExcelValue(cell) ==
    IF cell = EmptyStr \/ cell = NaN \/ cell = << "None" >> THEN PyNone ELSE PyStr(cell)

\* the sheet as loaded: one row per table row, no hyperlinks yet
Sheet(df) ==
    [ i \in 1..Len(df) |->
        [ c \in DOMAIN df[i] |-> [ value |-> ExcelValue(df[i][c]), hyperlink |-> PyNone ] ] ]

\* header = [cell.value for cell in ws[1]]
Header(df) == DOMAIN df[1]

\* for col_name in ['뉴스1', '뉴스2', '뉴스3', '공시1', '공시2', '공시3']
HyperCols == NewsCols \o NoticeCols

\* the title columns of the header, and the link column paired with one
TitleCols(header) == { HyperCols[i].t : i \in 1..Len(HyperCols) } \cap header
LinkColOf(t) == HyperCols[CHOOSE i \in 1..Len(HyperCols) : HyperCols[i].t = t].l

\* header.index(f'{col_name}_링크') raises when the link column is missing
SaveRaises(df) == \E t \in TitleCols(Header(df)) : LinkColOf(t) \notin Header(df)

\* if link_cell.value
Truthy(v) == v.k = "str" /\ v.s # EmptyStr

\* title_cell.hyperlink = link_cell.value: the cell takes the target as its
\* value when it has no value of its own
SetHyperlink(cell, target) ==
    [ value |-> IF cell.value.k = "none" THEN PyStr(target) ELSE cell.value,
      hyperlink |-> PyStr(target) ]

\* the hyperlink loop over one sheet row
LinkRow(row) ==
    [ c \in DOMAIN row |->
        IF c \in TitleCols(DOMAIN row) /\ Truthy(row[LinkColOf(c)].value)
        THEN SetHyperlink(row[c], row[LinkColOf(c)].value.s)
        ELSE row[c] ]

\* '_링크' in col_name: the names of the table that carry the mark are the
\* names of the title columns followed by it
LinkMark == "_link"
HasLinkMark(col_name) == \E i \in 1..Len(HyperCols) : col_name = HyperCols[i].t \o LinkMark

\* the columns whose column_dimensions are set hidden
Hidden(header) == { col_name \in header : HasLinkMark(col_name) }

\* len(str(cell.value)): an empty cell reads "None"
NoneLen == 4
TextLen(v) == IF v.k = "none" THEN NoneLen ELSE Len(v.s)

\* max_length over the cells of one column, the header cell included
MaxLength(rows, col_name) ==
    LET lens == { Len(col_name) } \cup { TextLen(rows[i][col_name].value) : i \in 1..Len(rows) }
    IN CHOOSE n \in lens : \A m \in lens : m <= n

\* a width without the cap
AdjustedWidthUncapped(max_length) == max_length + 2

\* adjusted_width = min(max_length + 2, 50)
WidthPad == 2
WidthCap == 50
AdjustedWidth(max_length) ==
    IF max_length + WidthPad < WidthCap THEN max_length + WidthPad ELSE WidthCap

\* the width loop: only a column that is not hidden is measured and sized
Widths(rows, header, hidden) ==
    [ col_name \in header \ hidden |-> AdjustedWidth(MaxLength(rows, col_name)) ]

\* save_to_excel_with_hyperlinks: nothing is written for an empty table;
\* otherwise the hyperlinks are set, then the link columns are hidden, then the
\* columns still visible are sized
save_to_excel_with_hyperlinks(df) ==
    IF DfEmpty(df) THEN NoFile
    ELSE LET rows == [ i \in 1..Len(df) |-> LinkRow(Sheet(df)[i]) ]
             hidden == Hidden(Header(df))
         IN [ written |-> TRUE, rows |-> rows, hidden |-> hidden,
              width |-> Widths(rows, Header(df), hidden) ]

\* main, "if not df.empty": the table is saved
MainSave ==
    /\ pc \in { "done", "empty" }
    /\ ~DfEmpty(result_df)
    /\ file' = save_to_excel_with_hyperlinks(result_df)
    /\ pc' = IF SaveRaises(result_df) THEN "raised" ELSE "saved"
    /\ UNCHANGED << pause, arg, ret, provider, max_stocks, include_detail, include_news,
                    page_size, start_idx, total_collected, all_data, result_df, details,
                    idx, fetchLog, callLog >>

\* main, the else branch: nothing is saved
MainFail ==
    /\ pc \in { "done", "empty" }
    /\ DfEmpty(result_df)
    /\ pc' = "failed"
    /\ UNCHANGED << pause, file, arg, ret, provider, max_stocks, include_detail, include_news,
                    page_size, start_idx, total_collected, all_data, result_df, details,
                    idx, fetchLog, callLog >>

Next ==
    \/ FetchEmpty
    \/ FetchLastPage
    \/ FetchFullPage
    \/ LoopExit
    \/ ReturnEmpty
    \/ Concat
    \/ DetailFetch
    \/ DetailMerge
    \/ NewsFetch
    \/ NoticesFetch
    \/ IrFetch
    \/ FacetsDone
    \/ MainSave
    \/ MainFail

Spec == Init /\ [][Next]_vars

\* the interpreter runs the program on: a step that can be taken is taken
FairSpec == Spec /\ WF_vars(Next)

-----------------------------------------------------------------------------
(* Direct calls of get_rising_stocks, get_recent_news, get_recent_notices and
   get_recent_ir, with arguments collect_all_data does not pass *)

\* largest maximum a facet fetch is called with
MaxMax == 4

\* largest number of months a facet fetch is called with
MaxMonths == 3

\* a date exactly nMonths * 30 days before midnight of today
EdgeDate(nMonths) == DateAt(0 - (nMonths * DaysPerMonth), 0, FALSE)

\* answers that hold an item dated exactly at a cutoff, first or after a fresh item
EdgeNews ==
    { NewsBody(<< Cluster(<< NewsOf(EdgeDate(m), ShortTitle("n", 8), 8),
                             NewsOf(FreshDate, ShortTitle("n", 1), 1) >>) >>)
        : m \in 1..MaxMonths } \cup
    { NewsBody(<< Cluster(<< NewsOf(FreshDate, ShortTitle("n", 1), 1) >>),
                  Cluster(<< NewsOf(EdgeDate(m), ShortTitle("n", 8), 8) >>) >>)
        : m \in 1..MaxMonths }
EdgeNotices ==
    { ListBody(<< NoticeOf(EdgeDate(m), ShortTitle("f", 8), PyStr(<< "7", "8", "_", "1" >>)),
                  NoticeOf(FreshDate, ShortTitle("f", 1), Absent) >>)
        : m \in 1..MaxMonths } \cup
    { ListBody(<< NoticeOf(FreshDate, ShortTitle("f", 1), Absent),
                  NoticeOf(EdgeDate(m), ShortTitle("f", 8), PyStr(<< "7", "8", "_", "1" >>)) >>)
        : m \in 1..MaxMonths }
EdgeIr ==
    { ListBody(<< IrOf(EdgeDate(m), ShortTitle("i", 8)), IrOf(FreshDate, ShortTitle("i", 1)) >>)
        : m \in 1..MaxMonths } \cup
    { ListBody(<< IrOf(FreshDate, ShortTitle("i", 1)), IrOf(EdgeDate(m), ShortTitle("i", 8)) >>)
        : m \in 1..MaxMonths }

\* a news answer with an item whose date does not parse between two fresh items
GapNews ==
    { NewsBody(<< Cluster(<< NewsOf(FreshDate, ShortTitle("n", 1), 1),
                             NewsOf(BadDate, ShortTitle("n", 9), 9),
                             NewsOf(FreshDate, ShortTitle("n", 2), 2) >>) >>) }

\* the calls of the three facet fetches
FacetCall(fn, resp, now, nMonths, max) ==
    [ fn |-> fn, resp |-> resp, now |-> now, months |-> nMonths, max |-> max ]
FacetCalls ==
    { FacetCall("get_recent_news", resp, now, m, max) :
        resp \in NewsResponses \cup EdgeNews \cup GapNews, now \in Clocks,
        m \in 1..MaxMonths, max \in 0..MaxMax } \cup
    { FacetCall("get_recent_notices", resp, now, m, max) :
        resp \in NoticeResponses \cup EdgeNotices, now \in Clocks,
        m \in 1..MaxMonths, max \in 0..MaxMax } \cup
    { FacetCall("get_recent_ir", resp, now, m, max) :
        resp \in IrResponses \cup EdgeIr, now \in Clocks,
        m \in 1..MaxMonths, max \in 0..MaxMax }

\* the raw values of a code column: null, a code of the table, a code that is
\* not in the table
KnownCode(f) == CHOOSE c \in DOMAIN TableOf(f) : TRUE
UnknownCode == << "7", "7" >>
CodeKinds == { "none", "known", "unknown" }
CodeValue(f, kind) ==
    CASE kind = "none" -> PyNone
      [] kind = "known" -> PyStr(KnownCode(f))
      [] OTHER -> PyStr(UnknownCode)

\* raw records: any subset of the code columns, each with any kind of value
RawRecords ==
    UNION { { [ f \in fs \cup { "itemcode" } |->
                  IF f = "itemcode" THEN code ELSE CodeValue(f, kinds[f]) ]
              : kinds \in [ fs -> CodeKinds ], code \in { << "0", "5" >>, << "A", "5" >> } }
            : fs \in SUBSET CodeFields }

\* a record with a known code in every code column
FullRecord ==
    [ f \in CodeFields \cup { "itemcode" } |->
        IF f = "itemcode" THEN << "0", "9" >> ELSE PyStr(KnownCode(f)) ]

\* the calls of get_rising_stocks: a body of one record, alone or followed by
\* a record that has every column
MapperCalls ==
    { [ fn |-> "get_rising_stocks", resp |-> [ kind |-> "ok", data |-> << raw >> ] ]
        : raw \in RawRecords } \cup
    { [ fn |-> "get_rising_stocks", resp |-> [ kind |-> "ok", data |-> << raw, FullRecord >> ] ]
        : raw \in RawRecords }

ApiInit ==
    /\ pause = 0
    /\ pc = "call"
    /\ arg \in FacetCalls \cup MapperCalls
    /\ ret = NoReturn
    /\ file = NoFile
    /\ max_stocks = 0
    /\ page_size = 1
    /\ include_detail = FALSE
    /\ include_news = FALSE
    /\ provider = "detail"
    /\ start_idx = 0
    /\ total_collected = 0
    /\ all_data = << >>
    /\ result_df = << >>
    /\ details = << >>
    /\ idx = 0
    /\ fetchLog = << >>
    /\ callLog = << >>

CallRisingStocks ==
    /\ pc = "call"
    /\ arg.fn = "get_rising_stocks"
    /\ ret' = [ kind |-> "frame", df |-> get_rising_stocks(arg.resp) ]
    /\ pc' = "returned"
    /\ UNCHANGED << pause, file, arg, provider, max_stocks, include_detail, include_news,
                    page_size, start_idx, total_collected, all_data, result_df, details,
                    idx, fetchLog, callLog >>

CallRecentNews ==
    /\ pc = "call"
    /\ arg.fn = "get_recent_news"
    /\ ret' = [ kind |-> "list",
                list |-> get_recent_news(arg.resp, arg.now, arg.months, arg.max) ]
    /\ pc' = "returned"
    /\ UNCHANGED << pause, file, arg, provider, max_stocks, include_detail, include_news,
                    page_size, start_idx, total_collected, all_data, result_df, details,
                    idx, fetchLog, callLog >>

CallRecentNotices ==
    /\ pc = "call"
    /\ arg.fn = "get_recent_notices"
    /\ ret' = [ kind |-> "list",
                list |-> get_recent_notices(arg.resp, arg.now, arg.months, arg.max) ]
    /\ pc' = "returned"
    /\ UNCHANGED << pause, file, arg, provider, max_stocks, include_detail, include_news,
                    page_size, start_idx, total_collected, all_data, result_df, details,
                    idx, fetchLog, callLog >>

CallRecentIr ==
    /\ pc = "call"
    /\ arg.fn = "get_recent_ir"
    /\ ret' = [ kind |-> "list",
                list |-> get_recent_ir(arg.resp, arg.now, arg.months, arg.max) ]
    /\ pc' = "returned"
    /\ UNCHANGED << pause, file, arg, provider, max_stocks, include_detail, include_news,
                    page_size, start_idx, total_collected, all_data, result_df, details,
                    idx, fetchLog, callLog >>

ApiNext ==
    \/ CallRisingStocks
    \/ CallRecentNews
    \/ CallRecentNotices
    \/ CallRecentIr

ApiSpec == ApiInit /\ [][ApiNext]_vars

-----------------------------------------------------------------------------
(* Properties of the base stage *)

\* ceil(a / b)
CeilDiv(a, b) == (a + b - 1) \div b

\* the frame the k-th bulk request came back with
PageOf(k) == get_rising_stocks(fetchLog[k].resp)

\* the records of the first j pages, in arrival order
PagesUpTo(j) == Flatten([ k \in 1..j |-> PageOf(k) ])

\* the number of raw records of the k-th answer
RawLen(k) == Len(fetchLog[k].resp.data)

RECURSIVE SumRawLen(_)
SumRawLen(j) == IF j = 0 THEN 0 ELSE RawLen(j) + SumRawLen(j - 1)

\* the base columns of a table
BaseOf(df) == [ i \in 1..Len(df) |-> [ code |-> df[i].code ] ]

\* the table exists: the base stage returned a non-empty result
TableBuilt == pc \in { "detail", "news", "notices", "ir", "done" }

\* C1: the base loop issues at most ceil(max_stocks / page_size) + 1 page
\* requests, whatever the pages are (full, short, empty, failed), and no
\* request is issued once the loop is left
C1_FetchBound ==
    /\ Len(fetchLog) <= CeilDiv(max_stocks, page_size) + 1
    /\ pc # "collect" => ~ENABLED (FetchEmpty \/ FetchLastPage \/ FetchFullPage)

C1_Witness ==
    /\ pc = "collected"
    /\ Len(fetchLog) >= 3
    /\ Len(fetchLog) = CeilDiv(max_stocks, page_size)
    /\ \E k \in 1..Len(fetchLog) : fetchLog[k].resp.kind = "error"

\* C2: the base stage never holds or returns more than max_stocks records
C2_NeverMoreThanMax ==
    /\ total_collected <= max_stocks
    /\ Len(ConcatPages(all_data)) <= max_stocks
    /\ Len(result_df) <= max_stocks

\* every fetched page holds at most page_size records
AllPagesWithinSize == \A k \in 1..Len(fetchLog) : RawLen(k) <= page_size

\* C3: when every fetched page holds at most page_size records, the records
\* gathered exceed max_stocks by at most one page, in the loop and at return
C3_AtMostOnePageOver ==
    AllPagesWithinSize =>
        /\ total_collected <= max_stocks + page_size
        /\ Len(ConcatPages(all_data)) <= max_stocks + page_size
        /\ Len(result_df) <= max_stocks + page_size

C3_Witness ==
    /\ pc = "collected"
    /\ Len(fetchLog) >= 2
    /\ AllPagesWithinSize
    /\ Len(ConcatPages(all_data)) > max_stocks

\* the k-th answer is a non-empty page of fewer than page_size records
ShortPage(k) ==
    /\ fetchLog[k].resp.kind = "ok"
    /\ 0 < RawLen(k)
    /\ RawLen(k) < page_size

\* C4: a non-empty page of fewer than page_size records is appended to the
\* table and is the last page requested; the table then holds every record of
\* every page fetched (pages of 2, 2 and 1 records with page_size 2: 5 records
\* after 3 requests)
C4_ShortPageIsLast ==
    \A k \in 1..Len(fetchLog) :
        ShortPage(k) =>
            /\ k = Len(fetchLog)
            /\ pc # "collect"
            /\ all_data # << >>
            /\ all_data[Len(all_data)] = PageOf(k)
            /\ Len(PageOf(k)) = RawLen(k)
            /\ ConcatPages(all_data) = PagesUpTo(k)
            /\ total_collected = SumRawLen(k)
            /\ TableBuilt => BaseOf(result_df) = PagesUpTo(k)

C4_Witness ==
    /\ pc = "done"
    /\ page_size = 2
    /\ Len(fetchLog) = 3
    /\ RawLen(1) = 2 /\ RawLen(2) = 2 /\ RawLen(3) = 1
    /\ Len(result_df) = 5

\* the k-th answer is a well-formed, empty page
EmptyPage(k) == fetchLog[k].resp.kind = "ok" /\ RawLen(k) = 0

\* an exception left collect_all_data from inside the base loop
BaseAborted == pc = "raised" /\ callLog = << >>

\* the run ended the base stage with the pages before the k-th, and only them
StoppedBefore(k) ==
    /\ k = Len(fetchLog)
    /\ pc # "collect"
    /\ ~BaseAborted
    /\ ConcatPages(all_data) = PagesUpTo(k - 1)
    /\ total_collected = SumRawLen(k - 1)
    /\ TableBuilt => BaseOf(result_df) = PagesUpTo(k - 1)
    /\ pc = "empty" => k = 1 /\ result_df = << >>

\* C5: when the k-th request returns an empty page, no further page is
\* requested and the result is exactly the pages 1..k-1
C5_EmptyPageStops ==
    \A k \in 1..Len(fetchLog) : EmptyPage(k) => StoppedBefore(k)

C5_Witness ==
    /\ pc = "done"
    /\ Len(fetchLog) = 2
    /\ EmptyPage(2)
    /\ RawLen(1) = 2
    /\ Len(result_df) = 2

\* the k-th request failed (transport or parse failure)
FailedPage(k) == fetchLog[k].resp.kind = "error"

\* C6: a failed page request counts as an empty page: the run is not aborted,
\* the pages fetched before are kept, and the base stage ends as for an empty
\* page
C6_FailedPageIsEmptyPage ==
    \A k \in 1..Len(fetchLog) :
        FailedPage(k) => IsEmptyPage(PageOf(k)) /\ StoppedBefore(k)

C6_Witness ==
    /\ pc = "done"
    /\ Len(fetchLog) = 3
    /\ FailedPage(3)
    /\ Len(result_df) = 2 * page_size
    /\ page_size = 2

-----------------------------------------------------------------------------
(* Properties of the enrichment stages *)

Facets == { "news", "notices", "ir" }

ColsOf(op) == CASE op = "news" -> NewsCols [] op = "notices" -> NoticeCols [] OTHER -> IrCols

\* every column the three facets may write
FacetColumns ==
    UNION { { ColsOf(op)[i].t, ColsOf(op)[i].d, ColsOf(op)[i].l } : op \in Facets, i \in 1..3 }
        \ { "" }

\* the k-th call ran to its end: it is not the one an exception interrupted
Completed(k) == ~(k = Len(callLog) /\ pc = "raised")

\* the cell holds the title, cut to its first 50 characters
HoldsTitle(cell, title) ==
    /\ Len(cell) <= 50
    /\ Len(cell) <= Len(title)
    /\ cell = SubSeq(title, 1, Len(cell))
    /\ Len(title) <= 50 => cell = title

\* slot i of the row holds the i-th item of the list, or empty strings
SlotHolds(row, c, list, i) ==
    /\ c.t \in DOMAIN row
    /\ c.d \in DOMAIN row
    /\ c.l # "" => c.l \in DOMAIN row
    /\ IF i <= Len(list)
       THEN /\ HoldsTitle(row[c.t], list[i].title.s)
            /\ row[c.d] = list[i].date
            /\ c.l # "" => row[c.l] = list[i].link
       ELSE /\ row[c.t] = EmptyStr
            /\ row[c.d] = EmptyStr
            /\ c.l # "" => row[c.l] = EmptyStr

SlotsHold(row, op, list) == \A i \in 1..3 : SlotHolds(row, ColsOf(op)[i], list, i)

\* the calls of one type issued for one row
CallsFor(op, r) == { k \in 1..Len(callLog) : callLog[k].op = op /\ callLog[k].row = r }

\* C7: when a run with facet enrichment finishes, every row has exactly 3 news,
\* 3 filing and 3 IR slots; slot i holds the i-th item its fetch returned (the
\* title cut to 50 characters) and the empty string when the fetch returned
\* fewer than i items; no slot is unset and there is no fourth slot
C7_ThreeSlotsPerFacet ==
    (pc = "done" /\ include_news) =>
        \A r \in 1..Len(result_df) :
            /\ \A op \in Facets :
                 /\ Cardinality(CallsFor(op, r)) = 1
                 /\ \A k \in CallsFor(op, r) :
                      SlotsHold(result_df[r], op, callLog[k].list)
            /\ \A col \in DOMAIN result_df[r] : result_df[r][col] # NaN
            /\ DOMAIN result_df[r] \subseteq FacetColumns \cup { "code", "sector", "description" }

C7_Witness ==
    /\ pc = "done"
    /\ include_news
    /\ Len(result_df) = 2
    /\ \E op \in Facets, k1, k2 \in 1..Len(callLog) :
         /\ callLog[k1].op = op /\ callLog[k1].row = 1 /\ Len(callLog[k1].list) = 2
         /\ callLog[k2].op = op /\ callLog[k2].row = 2 /\ Len(callLog[k2].list) = 3
         /\ Len(callLog[k2].list[3].title.s) > 50
    /\ \E k \in 1..Len(callLog) : callLog[k].op \in Facets /\ callLog[k].list = << >>

\* the positions a run can be at while a completed facet call is its latest
DueAfter(op) == CASE op = "news" -> { "notices" } [] op = "notices" -> { "ir" }
                  [] OTHER -> { "news", "done", "saved" }

\* C8: a failed news, filing or IR fetch yields an empty list for that facet
\* of that row only: the run goes on to the next fetch, the row's other facets
\* are fetched and hold their own results, and so does every other row
C8_FacetFailureIsLocal ==
    \A k \in 1..Len(callLog) :
        (callLog[k].op \in Facets /\ callLog[k].failed) =>
            /\ callLog[k].list = << >>
            /\ Completed(k)
            /\ SlotsHold(result_df[callLog[k].row], callLog[k].op, << >>)
            /\ k = Len(callLog) => pc \in DueAfter(callLog[k].op)
            /\ pc = "done" => \A op \in Facets : CallsFor(op, callLog[k].row) # { }
            /\ \A j \in 1..Len(callLog) :
                 (callLog[j].op \in Facets /\ Completed(j)) =>
                     SlotsHold(result_df[callLog[j].row], callLog[j].op, callLog[j].list)

C8_Witness ==
    /\ pc = "done"
    /\ Len(result_df) = 2
    /\ \E k \in CallsFor("notices", 1) : callLog[k].failed
    /\ \E k \in CallsFor("news", 1) : Len(callLog[k].list) = 1
    /\ \E k \in CallsFor("ir", 1) : Len(callLog[k].list) = 1
    /\ \E k \in CallsFor("notices", 2) : Len(callLog[k].list) = 3

\* the detail columns are in the table
DetailStageOver == include_detail /\ pc \in { "news", "notices", "ir", "done" }

\* C9: when the detail fetch of a row fails, the row's sector and description
\* are empty strings, and every row holds what its own detail fetch returned
C9_DetailFailureIsLocal ==
    /\ \A k \in 1..Len(callLog) :
         callLog[k].op = "detail" =>
             /\ Completed(k)
             /\ callLog[k].failed => callLog[k].detail = DetailFailed
             /\ pc = "detail" => details[callLog[k].row] = callLog[k].detail
    /\ DetailStageOver =>
         \A r \in 1..Len(result_df) :
             /\ Cardinality(CallsFor("detail", r)) = 1
             /\ \A k \in CallsFor("detail", r) :
                  /\ result_df[r]["sector"] = Cell(callLog[k].detail.sector)
                  /\ result_df[r]["description"] = Cell(callLog[k].detail.description)
                  /\ callLog[k].failed =>
                       /\ result_df[r]["sector"] = EmptyStr
                       /\ result_df[r]["description"] = EmptyStr

C9_Witness ==
    /\ pc = "done"
    /\ include_detail
    /\ Len(result_df) = 2
    /\ \E k \in CallsFor("detail", 1) : callLog[k].failed
    /\ result_df[1]["sector"] = EmptyStr
    /\ result_df[2]["sector"] = << "I", "T" >>
    /\ result_df[2]["description"] = << "a", " ", "c" >>

\* collect_all_data returned its table
Returned == pc \in { "done", "saved" }

\* C11: once the base stage has built a non-empty table, the run eventually
\* returns from collect_all_data, whatever the enrichment requests answer, and
\* the table returned holds exactly the records of the base stage, in the same
\* order and with the same base columns
C11_RunCompletes ==
    TableBuilt ~> (Returned /\ BaseOf(result_df) = BaseOf(ConcatPages(all_data)))

\* C10: no exception leaves an enrichment loop of collect_all_data, whatever
\* the provider answers to a detail, news, filing or IR request
C10_NoEscalation == pc # "raised"

-----------------------------------------------------------------------------
(* Properties of the orchestration *)

\* the step issues a page request, a detail request, a facet request
PageFetched == fetchLog' # fetchLog
DetailFetched == callLog' # callLog /\ callLog'[Len(callLog')].op = "detail"
FacetFetched == callLog' # callLog /\ callLog'[Len(callLog')].op \in Facets

\* every row has had its detail request; every row has had its three facet requests
AllDetailsFetched == \A r \in 1..Len(result_df) : Cardinality(CallsFor("detail", r)) = 1
AllFacetsFetched ==
    \A r \in 1..Len(result_df), op \in Facets : Cardinality(CallsFor(op, r)) = 1

\* what one step of the run may do, given the stage it is in
StageOrder ==
    /\ PageFetched => pc = "collect" /\ callLog = << >> /\ callLog' = callLog
    /\ DetailFetched =>
         /\ pc = "detail"
         /\ include_detail
         /\ fetchLog' = fetchLog
         /\ \A k \in 1..Len(callLog) : callLog[k].op = "detail"
    /\ FacetFetched =>
         /\ pc \in { "news", "notices", "ir" }
         /\ include_news
         /\ fetchLog' = fetchLog
         /\ include_detail => AllDetailsFetched
    /\ (pc # "done" /\ pc' = "done") =>
         /\ result_df' # << >>
         /\ include_detail <=> (AllDetailsFetched /\ callLog # << >>)'
         /\ ~include_detail => \A k \in 1..Len(callLog) : callLog[k].op # "detail"
         /\ include_news <=> (AllFacetsFetched /\ callLog # << >>)'
         /\ ~include_news => \A k \in 1..Len(callLog) : callLog[k].op \notin Facets

NothingGathered == pc # "collect" /\ total_collected = 0

\* C14: when the base stage gathers no record (first page empty or failed, or
\* max_stocks <= 0) the run goes straight to its empty result: it enters no
\* enrichment stage, issues no detail and no facet request, returns an empty
\* table, and writes no file
C14_EmptyRunSkipsStages ==
    NothingGathered =>
        /\ pc \in { "collected", "empty", "failed" }
        /\ callLog = << >>
        /\ result_df = << >>
        /\ file = NoFile
        /\ ~ENABLED (DetailFetch \/ NewsFetch \/ NoticesFetch \/ IrFetch \/ MainSave)

C14_Witness ==
    /\ pc = "failed"
    /\ include_detail /\ include_news
    /\ max_stocks > 0
    /\ Len(fetchLog) = 1
    /\ FailedPage(1)
    /\ result_df = << >>
    /\ ~file.written

\* the link column the claim pairs with slot i of a facet
PairedLink(op, i) ==
    CASE op = "news" -> NewsCols[i].l
      [] op = "notices" -> NoticeCols[i].l
      [] OTHER -> << "ir1_link", "ir2_link", "ir3_link" >>[i]

\* the columns named after the IR slots
IrLinkNames == { "ir1_link", "ir2_link", "ir3_link", "" }

\* the list the facet fetch of a row returned
ListOf(op, r) == callLog[CHOOSE k \in CallsFor(op, r) : TRUE].list

RawCodes ==
    Flatten([ k \in 1..Len(fetchLog) |->
                [ j \in 1..RawLen(k) |-> fetchLog[k].resp.data[j].itemcode ] ])

\* the rows are the raw records, one each, in arrival order
InArrivalOrder(df) ==
    LET raw == RawCodes
    IN /\ Len(df) = Len(raw)
       /\ \A n \in 1..Len(df) : df[n].code = << "A" >> \o raw[n]

\* C17: the table is the concatenation of the fetched pages in arrival order:
\* one row per fetched record, pages in the order fetched, records in their
\* in-page order, before and after both enrichment stages and in the saved sheet
C17_ArrivalOrder ==
    /\ InArrivalOrder(ConcatPages(all_data))
    /\ result_df # << >> => InArrivalOrder(result_df)
    /\ pc = "saved" =>
         /\ Len(file.rows) = Len(RawCodes)
         /\ \A n \in 1..Len(file.rows) : file.rows[n]["code"].value.s = << "A" >> \o RawCodes[n]

C17_Witness ==
    /\ pc = "saved"
    /\ include_news
    /\ Len(fetchLog) = 2
    /\ RawCodes = << << "0", "0" >>, << "A", "1" >> >>
    /\ result_df[1].code = << "A", "0", "0" >>
    /\ result_df[2].code = << "A", "A", "1" >>
    /\ result_df[2]["news1"] # EmptyStr

\* C19: the exchange code gets the letter A prepended only when the raw code
\* does not start with it: a raw code that starts with A is left unchanged,
\* any other gets exactly one A, and normalizing a normalized code changes nothing
C19_PrefixOnlyIfAbsent ==
    \A n \in 1..Len(ConcatPages(all_data)) :
        LET raw == RawCodes[n]
            out == ConcatPages(all_data)[n].code
        IN /\ Head(raw) = "A" => out = raw
           /\ Head(raw) # "A" => out = << "A" >> \o raw
           /\ PrefixCode(out) = out

\* C20: after the save, in every row and each of the title columns news1..3
\* and filing1..3: the title cell is a hyperlink to the value of the paired
\* link column when that value is not empty, it has no hyperlink when the
\* value is empty, and its text is the title the table holds
C20_TitleLinked ==
    pc = "saved" =>
        \A r \in 1..Len(result_df), i \in 1..Len(HyperCols) :
            HyperCols[i].t \in DOMAIN result_df[r] =>
                LET link == result_df[r][HyperCols[i].l]
                    cell == file.rows[r][HyperCols[i].t]
                IN /\ link # EmptyStr => cell.hyperlink = PyStr(link)
                   /\ link = EmptyStr => cell.hyperlink = PyNone
                   /\ cell.value = ExcelValue(result_df[r][HyperCols[i].t])

\* the columns of the saved sheet whose name carries the link mark
LinkNamed(header) ==
    header \cap { "news1_link", "news2_link", "news3_link",
                  "filing1_link", "filing2_link", "filing3_link" }

\* C21: in the saved sheet every column whose name carries the link suffix is
\* hidden and no other column is; the hyperlinks were set from the link
\* columns before these were hidden; only the columns still visible get a
\* width, and no width is above the cap of 50
C21_LinkColumnsHidden ==
    pc = "saved" =>
        /\ file.hidden = LinkNamed(Header(result_df))
        /\ DOMAIN file.width = Header(result_df) \ LinkNamed(Header(result_df))
        /\ \A c \in DOMAIN file.width :
              /\ file.width[c] <= 50
              /\ \A r \in 1..Len(file.rows) :
                    TextLen(file.rows[r][c].value) + 2 >= 50 => file.width[c] = 50
              /\ \A r \in 1..Len(file.rows) :
                    file.width[c] < 50 => file.width[c] >= TextLen(file.rows[r][c].value) + 2
        /\ \A i \in 1..Len(HyperCols), r \in 1..Len(file.rows) :
              /\ HyperCols[i].l \in file.hidden
              /\ file.rows[r][HyperCols[i].l].value.k = "str"
              => file.rows[r][HyperCols[i].t].hyperlink = file.rows[r][HyperCols[i].l].value

C21_Witness ==
    /\ pc = "saved"
    /\ file.hidden = { "news1_link", "news2_link", "news3_link",
                       "filing1_link", "filing2_link", "filing3_link" }
    /\ file.width["news3"] = 50
    /\ file.width["news1"] = 7
    /\ file.width["code"] = 6
    /\ file.rows[1]["news3"].hyperlink.k = "str"

\* C22: the k-th page request of a run asks for the offset (k - 1) * page_size:
\* 0, page_size, 2 * page_size, ...; the offsets grow strictly and none is
\* asked for twice
C22_PageOffsets ==
    /\ \A k \in 1..Len(fetchLog) : fetchLog[k].startIdx = (k - 1) * page_size
    /\ \A j, k \in 1..Len(fetchLog) : j < k => fetchLog[j].startIdx < fetchLog[k].startIdx

C22_Witness ==
    /\ page_size = 2
    /\ Len(fetchLog) = 3
    /\ fetchLog[3].startIdx = 4

\* the order of the three fetches of one iteration of the facet loop
FacetOrder == << "news", "notices", "ir" >>

\* the number of detail requests issued so far
DetailCalls == Cardinality({ k \in 1..Len(callLog) : callLog[k].op = "detail" })

\* C23: each enabled enrichment stage is one pass over the table: the detail
\* requests go row by row in table order, the facet requests follow them and
\* go row by row as news, filing, IR; every request is issued with the
\* exchange code of its row; when the run returns every row has had exactly
\* one request of each enabled type, and the row holds what the requests
\* issued for it returned
C23_OnePassPerStage ==
    LET nd == DetailCalls
        nf == Len(callLog) - DetailCalls
    IN /\ \A k \in 1..Len(callLog) :
             /\ callLog[k].row \in 1..Len(result_df)
             /\ callLog[k].stock_code = result_df[callLog[k].row].code
             /\ k <= nd => callLog[k].op = "detail" /\ callLog[k].row = k
             /\ k > nd =>
                   /\ callLog[k].row = ((k - nd - 1) \div 3) + 1
                   /\ callLog[k].op = FacetOrder[((k - nd - 1) % 3) + 1]
       /\ ~include_detail => nd = 0
       /\ ~include_news => nf = 0
       /\ Returned /\ include_detail =>
             /\ nd = Len(result_df)
             /\ \A r \in 1..Len(result_df) :
                   /\ result_df[r]["sector"] = Cell(callLog[r].detail.sector)
                   /\ result_df[r]["description"] = Cell(callLog[r].detail.description)
       /\ Returned /\ include_news =>
             /\ nf = 3 * Len(result_df)
             /\ \A r \in 1..Len(result_df), i \in 1..3 :
                   SlotsHold(result_df[r], FacetOrder[i], callLog[nd + 3 * (r - 1) + i].list)

C23_Witness ==
    /\ pc = "done"
    /\ include_news
    /\ Len(result_df) = 2
    /\ Len(callLog) = 6
    /\ callLog[4].op = "news"
    /\ callLog[4].stock_code = << "A", "A", "1" >>
    /\ callLog[4].list # << >>
    /\ callLog[1].list = << >>

\* C25: a pacing delay lies between any two successive page requests, and in
\* each enrichment stage a delay follows every record: when a further page
\* request, or the requests of the next record, can start, the run has slept
\* since its last request
C25_Paced ==
    /\ pc = "collect" /\ fetchLog # << >> => pause > 0
    /\ pc = "detail" /\ idx > 0 => pause > 0
    /\ pc = "news" /\ idx > 0 => pause > 0

C25_Witness ==
    /\ pc = "news"
    /\ Len(fetchLog) = 2
    /\ Len(result_df) = 2
    /\ idx = 1
    /\ Len(callLog) = 3
    /\ pause = 3

\* C26: the bare ticker every detail, news, filing and IR request is keyed by
\* is the raw code of the row's record as the bulk listing gave it, also when
\* the raw code holds the letter A
C26_TickerRoundTrip ==
    \A k \in 1..Len(callLog) : callLog[k].code = RawCodes[callLog[k].row]

-----------------------------------------------------------------------------
(* Properties of the facet fetches, called directly *)

\* a facet fetch returned
FacetReturned == pc = "returned" /\ ret.kind = "list"

\* the items of the answer, in the order the fetch reads them
ItemsOf(a) ==
    IF a.fn = "get_recent_news"
    THEN Flatten([ i \in 1..Len(a.resp.clusters) |-> a.resp.clusters[i].items ])
    ELSE a.resp.data

\* the cutoff of the call
CutoffOf(a) == [ day |-> a.now.day - a.months * 30, secs |-> a.now.secs ]

\* the entry was made from the item
MadeFrom(e, it) ==
    /\ it.dt.k = "date"
    /\ e.title = GetOrEmpty(it.title)
    /\ e.date = IsoDate(it.dt.day)

StrictlyNewer(dt, c) == dt.day > c.day \/ (dt.day = c.day /\ dt.secs > c.secs)
ExactlyAt(dt, c) == dt.k = "date" /\ dt.day = c.day /\ dt.secs = c.secs

FirstAtCutoff ==
    /\ ItemsOf(arg) # << >>
    /\ ExactlyAt(ItemsOf(arg)[1].dt, CutoffOf(arg))
    /\ ~ItemsOf(arg)[1].dt.tz
    /\ ItemsOf(arg)[1].bizdateSeq.k # "none"

C15_AtMostMax == FacetReturned => Len(ret.list) <= arg.max

-----------------------------------------------------------------------------
(* Properties of the field mapper, called directly *)

\* get_rising_stocks returned
MapperReturned == pc = "returned" /\ ret.kind = "frame"

\* the record holds, in column f, a code that is not in the column's table
HoldsUnknownCode(raw, f) ==
    /\ f \in DOMAIN raw
    /\ raw[f].k = "str"
    /\ raw[f].s \notin DOMAIN TableOf(f)

\* C18: in each of the five code columns, a raw code that is not in the
\* lookup table resolves to the empty string: the call returns one row per
\* record, and the text column holds '' (not NaN) for that record
C18_UnknownCodeIsEmpty ==
    MapperReturned =>
        /\ Len(ret.df) = Len(arg.resp.data)
        /\ \A i \in 1..Len(ret.df), f \in CodeFields :
             HoldsUnknownCode(arg.resp.data[i], f) =>
                 /\ TextCol(f) \in DOMAIN ret.df[i]
                 /\ ret.df[i][TextCol(f)] = EmptyStr

\* the item is dated at or before the cutoff; the item has no usable date
AtOrBefore(dt, c) == dt.k = "date" /\ ~StrictlyNewer(dt, c)
Undated(dt) == dt.k # "date"

\* the item is well formed and strictly newer than the cutoff
Recent(it, c) ==
    /\ it.dt.k = "date"
    /\ ~it.dt.tz
    /\ it.bizdateSeq.k # "none"
    /\ StrictlyNewer(it.dt, c)

\* a scan that skips undated items and stops at the maximum or at the first
\* item at or before the cutoff would reach item j and take it
ScanWouldTake(a, j) ==
    /\ Recent(ItemsOf(a)[j], CutoffOf(a))
    /\ \A h \in 1..(j - 1) :
          Undated(ItemsOf(a)[h].dt) \/ Recent(ItemsOf(a)[h], CutoffOf(a))
    /\ Cardinality({ h \in 1..(j - 1) : Recent(ItemsOf(a)[h], CutoffOf(a)) }) < a.max

\* C24: a facet fetch stops at the first item dated at or before the cutoff:
\* no item that follows such an item in provider order is returned; an item
\* whose date is missing or malformed is skipped without ending the scan: a
\* recent item that follows it is still returned while the maximum allows
C24_ScanStopsAtOldItem ==
    FacetReturned /\ arg.resp.kind \in { "dict", "list" } =>
        /\ \A j \in 1..Len(ItemsOf(arg)) :
              AtOrBefore(ItemsOf(arg)[j].dt, CutoffOf(arg)) =>
                  \A h \in (j + 1)..Len(ItemsOf(arg)), i \in 1..Len(ret.list) :
                      ~MadeFrom(ret.list[i], ItemsOf(arg)[h])
        /\ \A j \in 1..Len(ItemsOf(arg)) :
              Undated(ItemsOf(arg)[j].dt) =>
                  \A h \in (j + 1)..Len(ItemsOf(arg)) :
                      ScanWouldTake(arg, h) =>
                          \E i \in 1..Len(ret.list) : MadeFrom(ret.list[i], ItemsOf(arg)[h])

====
